---- MODULE Spec2Model ----
(***************************************************************************)
(* A model of soar-cli's entry point, src/soar-cli/src/main.rs:            *)
(* handle_cli (lines 45-342) and main (lines 344-349).                     *)
(*                                                                         *)
(* One run of the model is one process invocation.  Calls into the other   *)
(* modules and crates (soar_core, soar_dl, clap, the command modules) are  *)
(* external: the model records that the call was made and draws its        *)
(* outcome (success or failure) nondeterministically.  What such a callee *)
(* does to the two statics is not in this file: CalleeLeavesGlobals states *)
(* it, from the specification.                                             *)
(***************************************************************************)
EXTENDS Integers, Sequences, FiniteSets, TLC

\* ------------------------------------------------------------------ bounds
\* Longest command line (number of arguments) the model starts from.
MaxArgs == 2
\* Longest standard input (number of characters) the model starts from.
MaxStdin == 3
\* Most end-of-files standard input delivers before it is exhausted: one for
\* a pipe or a file, more for a terminal, where input goes on after each.
MaxEofs == 2

\* ------------------------------------------------------------------ inputs
\* Characters of standard input: one whitespace character and two others.
Chars == {" ", "-", "a"}

\* An argument is a string, modelled as a sequence of characters.
Dash == <<"-">>

\* Arguments the command line is drawn from.
ArgValues == {Dash, <<"a">>}

\* All sequences over S of length at most n.
SeqUpTo(S, n) == UNION {[1..k -> S] : k \in 0..n}

\* The suffixes of a sequence (what may be left unread after a failed read).
Suffixes(s) == {SubSeq(s, k, Len(s)) : k \in 1..(Len(s) + 1)}

\* The ways to cut the characters f into at most n segments, each ended by an
\* end-of-file: a read_to_string returns one segment.
RECURSIVE Cuts(_, _)
Cuts(f, n) ==
    IF n = 0
    THEN IF f = <<>> THEN {<<>>} ELSE {}
    ELSE (IF f = <<>> THEN {<<>>} ELSE {})
         \cup UNION {{<<SubSeq(f, 1, k)>> \o r :
                         r \in Cuts(SubSeq(f, k + 1, Len(f)), n - 1)} :
                     k \in 0..Len(f)}

\* Standard input as the process may find it.
StdinInputs == UNION {Cuts(f, MaxEofs) : f \in SeqUpTo(Chars, MaxStdin)}

VARIABLES
    pc,           \* position in handle_cli / main
    args,         \* the argument vector of line 46
    i,            \* the loop index of line 48 (0-based, as in the source)
    stdin,        \* unread standard input: the segments up to each end-of-file
    args0,        \* history: the argument vector the loop started from
    stdin0,       \* history: standard input as the loop started
    parsed,       \* the parsed Args of line 65
    COLOR,        \* utils::COLOR
    CONFIG_PATH,  \* soar_core::config::CONFIG_PATH
    writes,       \* history: the writes to the two statics, in order, each
                  \* with the number of calls made before it
    calls,        \* history: the external operations invoked so far, in order
    logs,         \* history: the messages emitted so far, in order
    failedSteps,  \* history: the steps that failed, in order
    result,       \* what handle_cli returned: "none", "Ok" or "Err"
    exitStatus    \* the process's exit status, -1 while it runs

scanVars == <<args, i, stdin, args0, stdin0>>
globalVars == <<COLOR, CONFIG_PATH, writes>>
vars == <<pc, args, i, stdin, args0, stdin0, parsed, COLOR, CONFIG_PATH,
          writes, calls, logs, failedSteps, result, exitStatus>>

\* ------------------------------------------------------ str::split_whitespace
IsWhitespace(c) == c = " "

\* The maximal runs of non-whitespace characters of s, in order.
RECURSIVE SplitFrom(_, _, _)
SplitFrom(s, k, cur) ==
    IF k > Len(s)
    THEN IF cur = <<>> THEN <<>> ELSE <<cur>>
    ELSE IF IsWhitespace(s[k])
         THEN IF cur = <<>>
              THEN SplitFrom(s, k + 1, <<>>)
              ELSE <<cur>> \o SplitFrom(s, k + 1, <<>>)
         ELSE SplitFrom(s, k + 1, Append(cur, s[k]))

SplitWhitespace(s) == SplitFrom(s, 1, <<>>)

\* -------------------------------------------------------------- parsed Args
Commands ==
    {"DefConfig", "Install", "Search", "Query", "Remove", "Sync", "Update",
     "ListInstalledPackages", "ListPackages", "Log", "Inspect", "Run", "Use",
     "Download", "Health", "Env", "SelfCmd", "Clean", "Config"}

\* config: "none" is None, "abs" an absolute path, "rel" a relative one.
ConfigOpts == {"none", "abs", "rel"}

\* edit: "none" is None, "default" is Some(None), "given" is Some(Some(editor)).
EditOpts == {"none", "default", "given"}

\* Args with the fields of the variants other than `command` at their defaults.
ArgsOf(c) ==
    [command : {c}, no_color : BOOLEAN, config : ConfigOpts, profile : BOOLEAN,
     portable : {FALSE}, portable_home : {FALSE}, portable_config : {FALSE},
     portable_share : {FALSE}, cache : {FALSE}, broken_symlinks : {FALSE},
     broken : {FALSE}, edit : {"none"}]

InstallArgs ==
    [command : {"Install"}, no_color : BOOLEAN, config : ConfigOpts,
     profile : BOOLEAN, portable : BOOLEAN, portable_home : BOOLEAN,
     portable_config : BOOLEAN, portable_share : BOOLEAN, cache : {FALSE},
     broken_symlinks : {FALSE}, broken : {FALSE}, edit : {"none"}]

CleanArgs ==
    [command : {"Clean"}, no_color : BOOLEAN, config : ConfigOpts,
     profile : BOOLEAN, portable : {FALSE}, portable_home : {FALSE},
     portable_config : {FALSE}, portable_share : {FALSE}, cache : BOOLEAN,
     broken_symlinks : BOOLEAN, broken : BOOLEAN, edit : {"none"}]

ConfigArgs ==
    [command : {"Config"}, no_color : BOOLEAN, config : ConfigOpts,
     profile : BOOLEAN, portable : {FALSE}, portable_home : {FALSE},
     portable_config : {FALSE}, portable_share : {FALSE}, cache : {FALSE},
     broken_symlinks : {FALSE}, broken : {FALSE}, edit : EditOpts]

ParsedArgs ==
    UNION {ArgsOf(c) : c \in Commands \ {"Install", "Clean", "Config"}}
        \cup InstallArgs \cup CleanArgs \cup ConfigArgs

\* The value of `parsed` before line 65 has run.
Unparsed ==
    [command |-> "unparsed", no_color |-> FALSE, config |-> "none",
     profile |-> FALSE, portable |-> FALSE, portable_home |-> FALSE,
     portable_config |-> FALSE, portable_share |-> FALSE, cache |-> FALSE,
     broken_symlinks |-> FALSE, broken |-> FALSE, edit |-> "none"]

\* ------------------------------------------------------------------- Init
Init ==
    /\ pc = "scan"
    /\ args \in SeqUpTo(ArgValues, MaxArgs)
    /\ i = 0
    /\ stdin \in StdinInputs
    /\ args0 = args
    /\ stdin0 = stdin
    /\ parsed = Unparsed
    /\ COLOR = TRUE
    /\ CONFIG_PATH = "default"
    /\ writes = <<>>
    /\ calls = <<>>
    /\ logs = <<>>
    /\ failedSteps = <<>>
    /\ result = "none"
    /\ exitStatus = -1

\* ------------------------------------------------- how a step can leave
\* `?` on an Err, or `return Err(..)`: handle_cli returns the error.
ReturnErr(step) ==
    /\ pc' = "returned"
    /\ result' = "Err"
    /\ failedSteps' = Append(failedSteps, step)
    /\ exitStatus' = exitStatus

\* handle_cli returns Ok(()).
ReturnOk ==
    /\ pc' = "returned"
    /\ result' = "Ok"
    /\ UNCHANGED <<failedSteps, exitStatus>>

\* std::process::exit(code), or a panic unwinding out of main (code 101).
Exit(code) ==
    /\ pc' = "exited"
    /\ exitStatus' = code
    /\ result' = result

\* A write to the static g, recorded with the number of calls made so far.
Written(g, made) == Append(writes, [global |-> g, after |-> Len(made)])

\* What a callee outside this file does to the two statics.  Its code is not
\* in this file; by section 9 of the specification the settings are fixed at
\* startup and handed to every core call to read, so a callee writes neither.
CalleeLeavesGlobals == UNCHANGED <<COLOR, CONFIG_PATH, writes>>

\* The step is done and handle_cli goes on at position p.
Goto(p) ==
    /\ pc' = p
    /\ UNCHANGED <<failedSteps, result, exitStatus>>

\* ------------------------------------- lines 48-63: stdin preprocessing
AtDash == pc = "scan" /\ i < Len(args) /\ args[i + 1] = Dash

\* Lines 60-62: the argument is not "-".
ScanAdvance ==
    /\ pc = "scan"
    /\ i < Len(args)
    /\ args[i + 1] # Dash
    /\ i' = i + 1
    /\ UNCHANGED <<pc, args, stdin, args0, stdin0, parsed, globalVars, calls,
                   logs, failedSteps, result, exitStatus>>

\* What a successful read_to_string returns: the input up to the next
\* end-of-file, and nothing once the input is exhausted.
ReadToEof(in) == IF in = <<>> THEN <<>> ELSE Head(in)

\* What is left unread after it.
AfterRead(in) == IF in = <<>> THEN <<>> ELSE Tail(in)

\* What may be left unread after a failed read_to_string: it stopped within
\* the segment it was reading, or at its end.
AfterFailedRead(in) ==
    IF in = <<>>
    THEN {<<>>}
    ELSE {<<rest>> \o Tail(in) : rest \in Suffixes(Head(in))} \cup {Tail(in)}

\* The argument vector after lines 55-56, given the tokens read.
Spliced(a, k, tokens) == SubSeq(a, 1, k) \o tokens \o SubSeq(a, k + 2, Len(a))

\* Variant: the index is advanced past the inserted tokens, so they are not
\* scanned again.
ScanReadOk_SkipsInserted ==
    /\ AtDash
    /\ args' = Spliced(args, i, SplitWhitespace(ReadToEof(stdin)))
    /\ i' = i + Len(SplitWhitespace(ReadToEof(stdin)))
    /\ stdin' = AfterRead(stdin)
    /\ UNCHANGED <<pc, args0, stdin0, parsed, globalVars, calls, logs,
                   failedSteps, result, exitStatus>>

\* Lines 51-56: a fresh read_to_string succeeds and returns the input up to
\* the next end-of-file; the "-" is removed and the tokens inserted at its
\* place; i is not advanced.
ScanReadOk ==
    /\ AtDash
    /\ args' = Spliced(args, i, SplitWhitespace(ReadToEof(stdin)))
    /\ stdin' = AfterRead(stdin)
    /\ UNCHANGED <<pc, i, args0, stdin0, parsed, globalVars, calls, logs,
                   failedSteps, result, exitStatus>>

\* Lines 57-59: read_to_string fails, having consumed some of stdin; what it
\* read is dropped with the buffer, the "-" stays and i advances.
ScanReadErr ==
    /\ AtDash
    /\ \E rest \in AfterFailedRead(stdin) : stdin' = rest
    /\ i' = i + 1
    /\ failedSteps' = Append(failedSteps, "stdin")
    /\ UNCHANGED <<pc, args, args0, stdin0, parsed, globalVars, calls, logs,
                   result, exitStatus>>

\* Line 49: the loop condition is false.
LoopDone == pc = "scan" /\ i >= Len(args)

\* The loop is left.  Nothing after it reads standard input, and the loop's
\* inputs were recorded only to state its result, so the model stops
\* tracking them here.
ScanExit ==
    /\ LoopDone
    /\ pc' = "parse"
    /\ stdin' = <<>> /\ args0' = <<>> /\ stdin0' = <<>>
    /\ UNCHANGED <<args, i, parsed, globalVars, calls, logs, failedSteps,
                   result, exitStatus>>

\* ------------------------------------------- lines 65-67: parse, logging
\* Line 65: the vector is moved into Args::parse_from, which is not part of
\* this file: any Args may come out of it.  Line 67: setup_logging returns
\* nothing and cannot fail.
ParseArgs ==
    /\ pc = "parse"
    /\ \E a \in ParsedArgs : parsed' = a
    /\ args' = <<>> /\ i' = 0
    /\ Goto("color")
    /\ CalleeLeavesGlobals
    /\ UNCHANGED <<stdin, args0, stdin0, calls, logs>>

\* Line 65: clap's parse_from ends the process itself when the arguments do
\* not parse (status 2) or ask for help or the version (status 0).
ParseExit ==
    /\ pc = "parse"
    /\ \E code \in {0, 2} : Exit(code)
    /\ args' = <<>> /\ i' = 0
    /\ CalleeLeavesGlobals
    /\ UNCHANGED <<stdin, args0, stdin0, parsed, calls, logs,
                   failedSteps>>

\* ------------------------------------------- lines 69-72: the colour toggle
SetColor ==
    /\ pc = "color"
    /\ IF parsed.no_color
       THEN COLOR' = FALSE /\ writes' = Written("COLOR", calls)
       ELSE UNCHANGED <<COLOR, writes>>
    /\ Goto("config")
    /\ UNCHANGED <<scanVars, parsed, CONFIG_PATH, calls, logs>>

\* --------------------------------------------- lines 74-87: the config path
\* parsed.config says what build_path makes of the argument: an absolute path
\* ("abs") or a relative one ("rel"), which is joined to the current directory.
\* Line 76 takes the write lock, line 77 calls soar_core's build_path while it
\* is held, and line 85 assigns the path.
SetConfigPath ==
    /\ pc = "config"
    /\ \/ /\ parsed.config = "none"
          /\ Goto("http")
          /\ UNCHANGED <<CONFIG_PATH, writes, calls>>
       \/ /\ parsed.config # "none"
          /\ calls' = Append(calls, "build_path")
          /\ ReturnErr("build_path")
          /\ UNCHANGED <<CONFIG_PATH, writes>>
       \/ /\ parsed.config = "rel"
          /\ calls' = Append(calls, "build_path")
          /\ ReturnErr("current_dir")
          /\ UNCHANGED <<CONFIG_PATH, writes>>
       \/ /\ parsed.config # "none"
          /\ calls' = Append(calls, "build_path")
          /\ CONFIG_PATH' = IF parsed.config = "abs" THEN "abs" ELSE "cwd/rel"
          /\ writes' = Written("CONFIG_PATH", calls')
          /\ Goto("http")
    /\ UNCHANGED <<scanVars, parsed, COLOR, logs>>

\* ------------------------------------------- lines 89-109: the HTTP client
ConfigureHttp ==
    /\ pc = "http"
    /\ calls' = Append(calls, "configure_http_client")
    /\ \/ /\ Goto("match")
          /\ logs' = logs
       \/ /\ \E hasSource \in BOOLEAN :
                logs' = logs \o (IF hasSource
                                 THEN <<"error:http", "error:caused_by">>
                                 ELSE <<"error:http">>)
          /\ Exit(1)
          /\ failedSteps' = Append(failedSteps, "configure_http_client")
    /\ CalleeLeavesGlobals
    /\ UNCHANGED <<scanVars, parsed>>

\* --------------------------------------------- lines 112-115: DefConfig
GenerateDefaultConfig ==
    /\ pc = "match"
    /\ parsed.command = "DefConfig"
    /\ calls' = Append(calls, "generate_default_config")
    /\ \/ ReturnOk
       \/ ReturnErr("generate_default_config")
    /\ CalleeLeavesGlobals
    /\ UNCHANGED <<scanVars, parsed, logs>>

\* ----------------------------------- lines 116-123: every other command
\* Line 117.
ConfigInit ==
    /\ pc = "match"
    /\ parsed.command # "DefConfig"
    /\ calls' = Append(calls, "config::init")
    /\ \/ Goto("profile")
       \/ ReturnErr("config::init")
    /\ CalleeLeavesGlobals
    /\ UNCHANGED <<scanVars, parsed, logs>>

\* Variant: the result of set_current_profile is dropped.
SetProfile_IgnoresFailure ==
    /\ pc = "profile"
    /\ \/ /\ ~parsed.profile
          /\ Goto("paths")
          /\ UNCHANGED <<calls, globalVars>>
       \/ /\ parsed.profile
          /\ calls' = Append(calls, "set_current_profile")
          /\ CalleeLeavesGlobals
          /\ \/ Goto("paths")
             \/ /\ pc' = "paths"
                /\ failedSteps' = Append(failedSteps, "set_current_profile")
                /\ UNCHANGED <<result, exitStatus>>
    /\ UNCHANGED <<scanVars, parsed, logs>>

\* Lines 119-121.
SetProfile ==
    /\ pc = "profile"
    /\ \/ /\ ~parsed.profile
          /\ Goto("paths")
          /\ UNCHANGED <<calls, globalVars>>
       \/ /\ parsed.profile
          /\ calls' = Append(calls, "set_current_profile")
          /\ CalleeLeavesGlobals
          /\ \/ Goto("paths")
             \/ ReturnErr("set_current_profile")
    /\ UNCHANGED <<scanVars, parsed, logs>>

\* Line 123: the result is unwrapped, so a failure panics.
SetupRequiredPaths ==
    /\ pc = "paths"
    /\ calls' = Append(calls, "setup_required_paths")
    /\ \/ Goto("command")
       \/ /\ Exit(101)
          /\ failedSteps' = Append(failedSteps, "setup_required_paths")
    /\ CalleeLeavesGlobals
    /\ UNCHANGED <<scanVars, parsed, logs>>

\* --------------------------------------------- lines 126-165: Install
\* Variant: the overrides are joined by && instead of ||.
PortableConflict_AllOverrides(a) ==
    a.portable /\ (a.portable_home /\ a.portable_config /\ a.portable_share)

\* Lines 138-141: generic portable mode together with a portable override.
PortableConflict(a) ==
    a.portable /\ (a.portable_home \/ a.portable_config \/ a.portable_share)

Install ==
    /\ pc = "command"
    /\ parsed.command = "Install"
    /\ \/ /\ PortableConflict(parsed)
          /\ logs' = Append(logs, "error:portable")
          /\ Exit(1)
          /\ UNCHANGED <<calls, failedSteps, globalVars>>
       \/ /\ ~PortableConflict(parsed)
          /\ calls' = Append(calls, "install_packages")
          /\ CalleeLeavesGlobals
          /\ logs' = logs
          /\ \/ ReturnOk
             \/ ReturnErr("install_packages")
    /\ UNCHANGED <<scanVars, parsed>>

\* ------------------- the arms that make one call and propagate its result
\* Lines 166-178, 184-262 and 279-281.
OpOf(c) ==
    CASE c = "Search" -> "search_packages"
      [] c = "Query" -> "query_package"
      [] c = "Remove" -> "remove_packages"
      [] c = "Update" -> "update_packages"
      [] c = "ListInstalledPackages" -> "list_installed_packages"
      [] c = "ListPackages" -> "list_packages"
      [] c = "Log" -> "inspect_log"
      [] c = "Inspect" -> "inspect_log"
      [] c = "Run" -> "run_package"
      [] c = "Use" -> "use_alternate_package"
      [] c = "Download" -> "download"
      [] c = "Health" -> "display_health"
      [] c = "SelfCmd" -> "process_self_action"

SingleOpCommands ==
    {"Search", "Query", "Remove", "Update", "ListInstalledPackages",
     "ListPackages", "Log", "Inspect", "Run", "Use", "Download", "Health",
     "SelfCmd"}

\* Variant: the operation is called a second time.
RunOperation_Twice ==
    /\ pc = "command"
    /\ parsed.command \in SingleOpCommands
    /\ calls' = calls \o <<OpOf(parsed.command), OpOf(parsed.command)>>
    /\ \/ ReturnOk
       \/ ReturnErr(OpOf(parsed.command))
    /\ CalleeLeavesGlobals
    /\ UNCHANGED <<scanVars, parsed, logs>>

RunOperation ==
    /\ pc = "command"
    /\ parsed.command \in SingleOpCommands
    /\ calls' = Append(calls, OpOf(parsed.command))
    /\ \/ ReturnOk
       \/ ReturnErr(OpOf(parsed.command))
    /\ CalleeLeavesGlobals
    /\ UNCHANGED <<scanVars, parsed, logs>>

\* ------------------------------------------------ lines 179-183: Sync
\* Variant: the report is emitted before the result of sync is looked at.
Sync_ReportsBeforeResult ==
    /\ pc = "command"
    /\ parsed.command = "Sync"
    /\ calls' = Append(calls, "sync")
    /\ logs' = Append(logs, "info:All repositories up to date")
    /\ \/ ReturnOk
       \/ ReturnErr("sync")
    /\ CalleeLeavesGlobals
    /\ UNCHANGED <<scanVars, parsed>>

Sync ==
    /\ pc = "command"
    /\ parsed.command = "Sync"
    /\ calls' = Append(calls, "sync")
    /\ \/ /\ logs' = Append(logs, "info:All repositories up to date")
          /\ ReturnOk
       \/ /\ logs' = logs
          /\ ReturnErr("sync")
    /\ CalleeLeavesGlobals
    /\ UNCHANGED <<scanVars, parsed>>

\* ------------------------------------------------- lines 263-278: Env
\* The six values printed, in order; each is read with `?` before its line.
EnvLines ==
    <<"info:SOAR_CONFIG", "info:SOAR_BIN", "info:SOAR_DB", "info:SOAR_CACHE",
      "info:SOAR_PACKAGES", "info:SOAR_REPOSITORIES">>

Env ==
    /\ pc = "command"
    /\ parsed.command = "Env"
    /\ \/ /\ logs' = logs \o EnvLines
          /\ ReturnOk
       \/ \E k \in 1..Len(EnvLines) :
             /\ logs' = logs \o SubSeq(EnvLines, 1, k - 1)
             /\ ReturnErr("env")
    /\ CalleeLeavesGlobals
    /\ UNCHANGED <<scanVars, parsed, calls>>

\* ----------------------------------------------- lines 282-297: Clean
\* Variant: broken_symlinks is left out of the test.
Unspecified_IgnoresSymlinks(a) == ~a.cache /\ ~a.broken

\* Line 287.
Unspecified(a) == ~a.cache /\ ~a.broken_symlinks /\ ~a.broken

\* One `if unspecified || flag { op()?; }` of lines 288-296: when the step is
\* selected the operation is called and its error returned; otherwise, and
\* after a success, handle_cli goes on at `next` (or returns Ok at the end).
CleanStep(flag, op, next) ==
    /\ \/ /\ ~(Unspecified(parsed) \/ flag)
          /\ UNCHANGED <<calls, globalVars>>
          /\ IF next = "end" THEN ReturnOk ELSE Goto(next)
       \/ /\ Unspecified(parsed) \/ flag
          /\ calls' = Append(calls, op)
          /\ CalleeLeavesGlobals
          /\ \/ IF next = "end" THEN ReturnOk ELSE Goto(next)
             \/ ReturnErr(op)
    /\ UNCHANGED <<scanVars, parsed, logs>>

\* Lines 288-290.
CleanCache ==
    /\ pc = "command"
    /\ parsed.command = "Clean"
    /\ CleanStep(parsed.cache, "cleanup_cache", "clean_symlinks")

\* Lines 291-293.
CleanSymlinks ==
    /\ pc = "clean_symlinks"
    /\ CleanStep(parsed.broken_symlinks, "remove_broken_symlinks", "clean_broken")

\* Lines 294-296.
CleanBroken ==
    /\ pc = "clean_broken"
    /\ CleanStep(parsed.broken, "remove_broken_packages", "end")

\* ---------------------------------------------- lines 298-335: Config
\* Lines 301-315: the editor is launched; only a failure to launch is an
\* error, the editor's own exit status is dropped.
ConfigEdit ==
    /\ pc = "command"
    /\ parsed.command = "Config"
    /\ parsed.edit # "none"
    /\ calls' = Append(calls, "editor")
    /\ \/ ReturnOk
       \/ ReturnErr("editor")
    /\ CalleeLeavesGlobals
    /\ UNCHANGED <<scanVars, parsed, logs>>

\* Lines 316-333: the config file is printed, or the default config when the
\* file does not exist.
ConfigShow ==
    /\ pc = "command"
    /\ parsed.command = "Config"
    /\ parsed.edit = "none"
    /\ \/ /\ logs' = Append(logs, "info:config")
          /\ ReturnOk
       \/ /\ logs' = logs \o <<"warn:config_not_found", "info:config">>
          /\ ReturnOk
       \/ /\ logs' = Append(logs, "warn:config_not_found")
          /\ ReturnErr("toml")
       \/ /\ logs' = logs
          /\ ReturnErr("read_config")
    /\ CalleeLeavesGlobals
    /\ UNCHANGED <<scanVars, parsed, calls>>

\* ------------------------------------------------ lines 344-349: main
\* An error is logged; main then returns, and the process ends with status 0.
Main ==
    /\ pc = "returned"
    /\ logs' = IF result = "Err" THEN Append(logs, "error:main") ELSE logs
    /\ Exit(0)
    /\ UNCHANGED <<scanVars, parsed, globalVars, calls, failedSteps>>

\* ------------------------------------------------------------------ Next
Next ==
    \/ ScanAdvance
    \/ ScanReadOk
    \/ ScanReadErr
    \/ ScanExit
    \/ ParseArgs
    \/ ParseExit
    \/ SetColor
    \/ SetConfigPath
    \/ ConfigureHttp
    \/ GenerateDefaultConfig
    \/ ConfigInit
    \/ SetProfile
    \/ SetupRequiredPaths
    \/ Install
    \/ RunOperation
    \/ Sync
    \/ Env
    \/ CleanCache
    \/ CleanSymlinks
    \/ CleanBroken
    \/ ConfigEdit
    \/ ConfigShow
    \/ Main

Spec == Init /\ [][Next]_vars

\* The process is scheduled until it ends: a step that can be taken is taken.
FairSpec == Spec /\ WF_vars(Next)

\* =================================================================
\* Properties.  What they read of a run: the history variables and the
\* parsed arguments; the conditions are restated here from the claims.
\* =================================================================
Has(seq, x) == \E k \in DOMAIN seq : seq[k] = x

CountOf(seq, S) == Cardinality({k \in DOMAIN seq : seq[k] \in S})

IsPrefix(p, q) == Len(p) <= Len(q) /\ SubSeq(q, 1, Len(p)) = p

\* The process has ended.
Ended == pc = "exited"

\* handle_cli is over: it returned, or the process ended.
Finished == pc \in {"returned", "exited"}

\* Generic portable mode was requested together with a portable override.
ConflictRequested ==
    /\ parsed.command = "Install"
    /\ parsed.portable
    /\ parsed.portable_home \/ parsed.portable_config \/ parsed.portable_share

\* The startup calls made for the parsed command when each succeeds.
StartupCalls ==
    <<"configure_http_client", "config::init">>
        \o (IF parsed.profile THEN <<"set_current_profile">> ELSE <<>>)
        \o <<"setup_required_paths">>

StartupOps ==
    {"configure_http_client", "config::init", "set_current_profile",
     "setup_required_paths"}

NotBuildPath(op) == op # "build_path"

\* The calls made once the config path is settled: all but build_path, which
\* serves only to work that path out.
CallsAfterPath == SelectSeq(calls, NotBuildPath)

\* The startup steps all succeeded, in order.
StartupSucceeded ==
    /\ IsPrefix(StartupCalls, CallsAfterPath)
    /\ \A op \in StartupOps : ~Has(failedSteps, op)

\* The arm of the parsed command has run (for DefConfig, the outer arm).
ArmRan ==
    /\ Finished
    /\ IF parsed.command = "DefConfig"
       THEN Has(calls, "generate_default_config")
       ELSE StartupSucceeded

\* ----------------------------------------------------------------- C1
\* C1 (as claimed): whenever handle_cli returned an error, the process emits
\* an error message and ends with a non-zero status; and a process that ends
\* with status 0 after handle_cli returned got Ok from it.
C1_ErrorGivesNonZeroExit ==
    (Ended /\ result # "none") =>
        /\ result = "Err" => (Has(logs, "error:main") /\ exitStatus # 0)
        /\ exitStatus = 0 => result = "Ok"

\* ----------------------------------------------------------------- C2
\* C2 (as claimed): when an install request with generic portable mode and a
\* portable override is rejected, no configuration has been loaded, no profile
\* selected, no required directory created and no HTTP client configuration
\* applied.
C2_ConflictRejectedBeforeIO ==
    (ConflictRequested /\ Has(logs, "error:portable")) =>
        \A op \in StartupOps : ~Has(calls, op)

\* ----------------------------------------------------------------- C3
InstallCalls == CountOf(calls, {"install_packages"})

\* C3 (as claimed): install_packages is never invoked with the conflicting
\* combination; in every execution that requests it the process ends with
\* status 1 and no install; in every execution of an Install with any other
\* combination install_packages is invoked exactly once.
C3_InstallInEveryExecution ==
    /\ InstallCalls > 0 => ~ConflictRequested
    /\ (Ended /\ ConflictRequested) => (exitStatus = 1 /\ InstallCalls = 0)
    /\ (Ended /\ parsed.command = "Install" /\ ~ConflictRequested)
           => InstallCalls = 1

\* C3 (amended): install_packages is never invoked with the conflicting
\* combination; when an Install whose startup steps all succeeded requests
\* it, the process ends with status 1 and no install; when such an Install
\* requests any other combination, install_packages is invoked exactly once.
C3_InstallAfterStartup ==
    /\ InstallCalls > 0 => ~ConflictRequested
    /\ (ArmRan /\ ConflictRequested)
           => (Ended /\ exitStatus = 1 /\ InstallCalls = 0)
    /\ (ArmRan /\ parsed.command = "Install" /\ ~ConflictRequested)
           => InstallCalls = 1

\* A conflicting install request has been rejected.
C3_Witness ==
    /\ ArmRan /\ ConflictRequested
    /\ parsed.portable_config /\ ~parsed.portable_home
    /\ exitStatus = 1

\* ----------------------------------------------------------------- C4
\* The operations of the six engines: sync, install, update, remove, health
\* check and repair, run.
EngineOps ==
    {"sync", "install_packages", "update_packages", "remove_packages",
     "display_health", "remove_broken_symlinks", "remove_broken_packages",
     "run_package"}

EngineCalls == CountOf(calls, EngineOps)

OneEngineCommands == {"Sync", "Install", "Update", "Remove", "Health", "Run"}

NoEngineCommands ==
    {"DefConfig", "Env", "Config", "Search", "Query", "ListInstalledPackages",
     "ListPackages", "Log", "Inspect", "Use", "Download", "SelfCmd"}

\* C4 (as claimed): every command whose arm has run has called exactly one
\* engine operation.
C4_ExactlyOneEngineCall == ArmRan => EngineCalls = 1

\* C4 (amended): of the commands whose arm has run, Sync, Update, Remove,
\* Health, Run and an Install without a portable conflict have called exactly
\* one engine operation; DefConfig, Env, Config, the listing, query, log,
\* use, download and self commands and a conflicting Install have called
\* none; Clean has called at most its two health repairs; and no engine
\* operation is ever called twice.
C4_EngineCallsPerCommand ==
    /\ \A op \in EngineOps : CountOf(calls, {op}) <= 1
    /\ ArmRan =>
        /\ (parsed.command \in OneEngineCommands /\ ~ConflictRequested)
               => EngineCalls = 1
        /\ (parsed.command \in NoEngineCommands \/ ConflictRequested)
               => EngineCalls = 0
        /\ parsed.command = "Clean"
               => /\ EngineCalls <= 2
                  /\ EngineCalls =
                         CountOf(calls, {"remove_broken_symlinks",
                                         "remove_broken_packages"})

\* A Clean with no flag has run both repairs; its cache cleanup came first.
C4_Witness ==
    /\ ArmRan /\ parsed.command = "Clean"
    /\ EngineCalls = 2
    /\ result = "Ok"

\* ----------------------------------------------------------------- C5
\* The writes that call number k (in `calls`) comes after.
WritesBefore(k) == {j \in DOMAIN writes : writes[j].after < k}

\* C5 (as claimed): the config path and the colour toggle are no mutable
\* shared state: each is written at most once, every write comes before any
\* core call is made, and so every call of a run observes the same values.
C5_GlobalsFixedBeforeCalls ==
    /\ \A g \in {"COLOR", "CONFIG_PATH"} :
           Cardinality({j \in DOMAIN writes : writes[j].global = g}) <= 1
    /\ \A j \in DOMAIN writes : writes[j].after = 0
    /\ \A k, m \in DOMAIN calls : WritesBefore(k) = WritesBefore(m)

\* ----------------------------------------------------------------- C6
\* C6 (as claimed): once a step has failed, handle_cli has returned an error:
\* the run does not go on, does not end the process itself and does not panic.
C6_EveryFailureReturned ==
    failedSteps # <<>> => (Finished /\ result = "Err" /\ exitStatus \in {-1, 0})

\* ----------------------------------------------------------------- C7
SyncReport == "info:All repositories up to date"

\* C7: the success report of Sync is emitted only after sync returned
\* success (and then it is emitted); when sync fails the report is not
\* emitted and handle_cli returns the error.
C7_SyncReportOnlyOnSuccess ==
    /\ Has(logs, SyncReport)
           => (Has(calls, "sync") /\ ~Has(failedSteps, "sync") /\ result = "Ok")
    /\ Has(failedSteps, "sync") => (~Has(logs, SyncReport) /\ result = "Err")
    /\ (ArmRan /\ parsed.command = "Sync" /\ result = "Ok")
           => Has(logs, SyncReport)

C7_Witness ==
    /\ parsed.command = "Sync" /\ Has(calls, "sync")
    /\ Has(logs, SyncReport) /\ Ended

\* ----------------------------------------------------------------- C8
CleanOps == {"cleanup_cache", "remove_broken_symlinks", "remove_broken_packages"}

InCleanOps(op) == op \in CleanOps

\* The steps selected by the flags, in the fixed order.
SelectedSteps ==
    LET none == ~parsed.cache /\ ~parsed.broken_symlinks /\ ~parsed.broken
    IN  (IF none \/ parsed.cache THEN <<"cleanup_cache">> ELSE <<>>)
        \o (IF none \/ parsed.broken_symlinks
            THEN <<"remove_broken_symlinks">> ELSE <<>>)
        \o (IF none \/ parsed.broken
            THEN <<"remove_broken_packages">> ELSE <<>>)

ExecutedSteps == SelectSeq(calls, InCleanOps)

FailedCleanSteps == SelectSeq(failedSteps, InCleanOps)

\* C8: the steps of Clean that are executed are the selected steps in the
\* fixed order, up to and including the first that fails: all of them when
\* none fails, and nothing after a failed one and nothing unselected.
C8_CleanSteps ==
    /\ ExecutedSteps # <<>> => parsed.command = "Clean"
    /\ IsPrefix(ExecutedSteps, SelectedSteps)
    /\ FailedCleanSteps # <<>>
           => /\ Len(FailedCleanSteps) = 1
              /\ ExecutedSteps[Len(ExecutedSteps)] = FailedCleanSteps[1]
              /\ result = "Err"
    /\ (ArmRan /\ parsed.command = "Clean" /\ FailedCleanSteps = <<>>)
           => ExecutedSteps = SelectedSteps

\* Cache and broken packages were selected; the cache cleanup succeeded and
\* the removal of broken packages failed.
C8_Witness ==
    /\ parsed.command = "Clean"
    /\ parsed.cache /\ ~parsed.broken_symlinks /\ parsed.broken
    /\ ExecutedSteps = <<"cleanup_cache", "remove_broken_packages">>
    /\ FailedCleanSteps = <<"remove_broken_packages">>

\* ----------------------------------------------------------------- C9
NotDash(t) == t # Dash

\* The content of standard input as the first read finds it: the input up to
\* its first end-of-file.
Content(in) == IF in = <<>> THEN <<>> ELSE Head(in)

\* The result the claim gives for a command line a and standard input s.
ClaimedArgs(a, s) ==
    IF \A k \in DOMAIN a : a[k] # Dash
    THEN a
    ELSE LET first == CHOOSE k \in DOMAIN a :
                          a[k] = Dash /\ \A j \in 1..(k - 1) : a[j] # Dash
         IN  SubSeq(a, 1, first - 1)
                 \o SelectSeq(SplitWhitespace(s), NotDash)
                 \o SelectSeq(SubSeq(a, first + 1, Len(a)), NotDash)

\* The command line a with each "-", from the left, replaced by the tokens of
\* the next segment of the input (a "-" among those tokens is replaced in its
\* turn), and by nothing once the input is exhausted.
RECURSIVE Expanded(_, _)
Expanded(a, in) ==
    IF a = <<>>
    THEN <<>>
    ELSE IF Head(a) # Dash
         THEN <<Head(a)>> \o Expanded(Tail(a), in)
         ELSE IF in = <<>>
              THEN Expanded(Tail(a), <<>>)
              ELSE Expanded(SplitWhitespace(Head(in)) \o Tail(a), Tail(in))

\* No read has failed.
ReadsSucceeded == ~Has(failedSteps, "stdin")

\* As claimed: when the loop is done and no read failed, the first "-" has
\* been replaced by the tokens of standard input, every later "-" removed
\* with nothing inserted, and no "-" remains.
C9_ResultAsClaimed ==
    (LoopDone /\ ReadsSucceeded)
        => /\ args = ClaimedArgs(args0, Content(stdin0))
           /\ ~Has(args, Dash)

\* Amended: when the loop is done and no read failed, each "-" has been
\* replaced by the tokens of the next segment of the input and no "-"
\* remains; on an input with a single end-of-file that is the claimed result.
C9_Result ==
    (LoopDone /\ ReadsSucceeded)
        => /\ args = Expanded(args0, stdin0)
           /\ ~Has(args, Dash)
           /\ Len(stdin0) <= 1 => args = ClaimedArgs(args0, Content(stdin0))

\* A step in which a read fails leaves the "-" in place and goes on with the
\* next argument.
C9_FailedRead ==
    (pc = "scan" /\ Len(failedSteps') > Len(failedSteps))
        => /\ i < Len(args) /\ args[i + 1] = Dash
           /\ args' = args /\ i' = i + 1 /\ pc' = "scan"

\* C9 (as claimed): the preprocessing loop terminates; when every read
\* succeeds the first "-" is replaced by the tokens of standard input, every
\* later "-" (one that came from standard input included) is removed with
\* nothing inserted, no "-" remains and the other arguments keep their values
\* and order; a failed read leaves its "-" in place and scanning goes on with
\* the next argument.
C9_AsClaimed ==
    /\ <>(pc # "scan")
    /\ [](C9_ResultAsClaimed)
    /\ [][C9_FailedRead]_vars

\* C9 (amended): the preprocessing loop terminates; when every read succeeds
\* each "-" the scan reaches (one that came from standard input included) is
\* replaced by the tokens of what its read returns, the input up to the next
\* end-of-file, and by nothing once the input is exhausted, so that on an
\* input with a single end-of-file the first "-" is replaced by the tokens of
\* standard input and every later "-" is removed; no "-" remains and the
\* other arguments keep their values and order; a failed read leaves its "-"
\* in place and scanning goes on with the next argument.
C9_StdinPreprocessing ==
    /\ <>(pc # "scan")
    /\ [](C9_Result)
    /\ [][C9_FailedRead]_vars

\* The loop is done on a command line with two "-" and an input with two
\* end-of-files: the first "-" read a "-", which read the second segment, and
\* the last "-" found the input exhausted.
C9_Witness ==
    /\ LoopDone /\ ReadsSucceeded
    /\ args0 = <<Dash, Dash>>
    /\ stdin0 = << <<"-">>, <<"a">> >>
    /\ args = << <<"a">> >>

\* ---------------------------------------------------------------- C10
\* The arm of a command other than DefConfig has started.
ArmStarted ==
    \/ pc \in {"command", "clean_symlinks", "clean_broken"}
    \/ \E k \in DOMAIN calls :
           calls[k] \notin StartupOps \cup {"generate_default_config", "build_path"}
    \/ \E k \in DOMAIN logs :
           logs[k] \notin {"error:http", "error:caused_by", "error:main"}

\* C10: the HTTP client is configured before anything else is called (only
\* build_path, which works out the config path, comes before it) and its
\* failure ends the process with status 1 and nothing further called; the arm
\* of a command other than DefConfig starts only after config initialisation,
\* profile selection (when a profile was given) and required-path setup have
\* all succeeded, in that order; DefConfig performs none of the three.
C10_StartupOrdering ==
    /\ \A k \in DOMAIN calls : calls[k] = "build_path" => k = 1
    /\ CallsAfterPath # <<>> => CallsAfterPath[1] = "configure_http_client"
    /\ Has(failedSteps, "configure_http_client")
           => (Ended /\ exitStatus = 1 /\ Len(CallsAfterPath) = 1)
    /\ ArmStarted => (parsed.command # "DefConfig" /\ StartupSucceeded)
    /\ parsed.command = "DefConfig"
           => \A op \in StartupOps \ {"configure_http_client"} : ~Has(calls, op)
    /\ Has(calls, "set_current_profile") => parsed.profile

\* A command with a profile has run its operation after the four startup calls.
C10_Witness ==
    /\ parsed.command = "Remove" /\ parsed.profile
    /\ calls = <<"configure_http_client", "config::init",
                 "set_current_profile", "setup_required_paths",
                 "remove_packages">>

====
